---- MODULE Spec2Model ----
(***************************************************************************)
(* Model of multiplatform-hashes.py: one run of main() is a sequence of    *)
(* blocking external calls (GitHub REST requests, git, curl/unzip,         *)
(* terraform).  Each action is one statement of main(); `pc` is the        *)
(* position in main().  The GitHub side is the PR's label set and title;   *)
(* a finished run may be followed by another run on the same PR.           *)
(***************************************************************************)
EXTENDS Integers, Sequences, FiniteSets

\* ---------------------------------------------------------------- bounds
MaxPathLen == 3
MaxRuns == 2

\* ------------------------------------------------------- strings as chars
LIT_BUMP == <<"B", "u", "m", "p", " ">>
LIT_FROM == <<" ", "f", "r", "o", "m", " ">>
LIT_TO == <<" ", "t", "o", " ">>
LIT_IN == <<" ", "i", "n", " ">>

HasAt(s, lit, i) ==
    /\ i >= 1
    /\ i + Len(lit) - 1 <= Len(s)
    /\ \A k \in 1..Len(lit) : s[i + k - 1] = lit[k]

\* `$` matches at the end of the string or just before a final newline.
MatchEnd(s) ==
    IF Len(s) > 0 /\ s[Len(s)] = "\n" THEN Len(s) - 1 ELSE Len(s)

\* All <<f, t, n>> = start positions of " from ", " to ", " in " for which
\* ^Bump .+ from .+ to .+ in (?P<path>.+)$ matches; `.` excludes newline.
MatchTriples(s) ==
    LET e == MatchEnd(s)
        At(lit, lo) == { i \in lo..Len(s) : HasAt(s, lit, i) }
    IN  IF ~HasAt(s, LIT_BUMP, 1) \/ \E k \in 1..e : s[k] = "\n"
        THEN {}
        ELSE UNION { UNION { { <<f, t, n>> :
                                 n \in { i \in At(LIT_IN, t + Len(LIT_TO) + 1) :
                                            i + Len(LIT_IN) <= e } } :
                             t \in At(LIT_TO, f + Len(LIT_FROM) + 1) } :
                     f \in At(LIT_FROM, Len(LIT_BUMP) + 2) }

LexGE(a, b) ==
    \/ a[1] > b[1]
    \/ a[1] = b[1] /\ a[2] > b[2]
    \/ a[1] = b[1] /\ a[2] = b[2] /\ a[3] >= b[3]

\* re.match: None, or the match the greedy quantifiers select (each `.+`
\* as long as possible, earlier groups first) with its `path` group.
RE_PR_TITLE_FORMAT(s) ==
    LET M == MatchTriples(s) IN
    IF M = {} THEN [matched |-> FALSE, path |-> <<>>]
    ELSE LET m == CHOOSE x \in M : \A y \in M : LexGE(x, y)
         IN [matched |-> TRUE,
             path |-> SubSeq(s, m[3] + Len(LIT_IN), MatchEnd(s))]

LStrip_none(s) == s

RECURSIVE LStrip(_)
\* str.lstrip('/')
LStrip(s) ==
    IF s # <<>> /\ Head(s) = "/" THEN LStrip(Tail(s)) ELSE s

\* ------------------------------------------------------------ configuration
FIXED_LABEL == "multiplatform-hashes"
terraform_path == "/terraform"

\* The default list and lists of other lengths and orders.
PlatformLists ==
    { <<"darwin_amd64", "linux_amd64">>,
      <<"linux_amd64", "darwin_amd64">>,
      <<"linux_amd64">>,
      <<"linux_amd64", "linux_amd64", "linux_arm64">> }

\* [f'-platform={p}' for p in TERRAFORM_PLATFORMS]
PlatformFlags(ps) == [i \in 1..Len(ps) |-> <<"-platform=", ps[i]>>]

LockArgv(ps) ==
    <<<<terraform_path>>, <<"providers">>, <<"lock">>>> \o PlatformFlags(ps)

\* ------------------------------------------------------------------ inputs
LabelUniverse == {"dependencies", "terraform", FIXED_LABEL, "go"}

PathChars == {"/", "a"}
Paths == UNION { [1..n -> PathChars] : n \in 0..MaxPathLen }
Names == { <<"x">>, <<"x">> \o LIT_IN \o <<"y">> }
BumpTitle(x, p) == LIT_BUMP \o x \o LIT_FROM \o <<"4">> \o LIT_TO \o <<"5">> \o LIT_IN \o p

BumpFoo == <<"B", "u", "m", "p", " ", "f", "o", "o">>
OtherTitles ==
    { BumpFoo,
      <<>>,
      <<"b", "u", "m", "p", " ">> \o <<"x">> \o LIT_FROM \o <<"4">> \o LIT_TO
          \o <<"5">> \o LIT_IN \o <<"a">>,
      BumpTitle(<<"x">>, <<"a">>) \o <<"\n">>,
      BumpTitle(<<"x">>, <<"a", "\n", "a">>) }
Titles == { BumpTitle(x, p) : x \in Names, p \in Paths } \cup OtherTitles

HttpStatuses == {"200", "401", "500"}

\* ------------------------------------------------------------------- state
VARIABLES
    pc,                     \* position in main(); "done" = process exited
    exit_status,            \* "running", "ok" (exit 0), "error" (non-zero)
    run,                    \* number of the current run
    prev,                   \* summary of the previous run on this PR
    server_labels,          \* the PR's labels at GitHub
    pr_title,               \* the PR's title at GitHub
    API_TOKEN_FULL,         \* "" when the environment variable is unset
    TERRAFORM_PLATFORMS,    \* configured platform list
    pr_payload,             \* response of the PR GET
    pr_label_names,         \* local label set
    terraform_project_path, \* path parsed from the title
    tmpdir,                 \* "none", "exists", "removed"
    effects,                \* external calls of this run, in order
    lock_argv,              \* argv of each `providers lock` call
    patch_requests          \* label sets sent by PATCH in this run

vars == <<pc, exit_status, run, prev, server_labels, pr_title,
          API_TOKEN_FULL, TERRAFORM_PLATFORMS, pr_payload, pr_label_names,
          terraform_project_path, tmpdir, effects, lock_argv,
          patch_requests>>

config == <<run, prev, pr_title, API_TOKEN_FULL, TERRAFORM_PLATFORMS>>

NoPayload == [fetched |-> FALSE, labels |-> {}, title |-> <<>>]
NoPrev == [status |-> "none", gate_passed |-> FALSE, patch_sent |-> FALSE,
           labels |-> {}]

Init ==
    /\ pc = "fetch_pr"
    /\ exit_status = "running"
    /\ run = 1
    /\ prev = NoPrev
    /\ server_labels \in SUBSET LabelUniverse
    /\ pr_title \in Titles
    /\ API_TOKEN_FULL \in {"", "ghp"}
    /\ TERRAFORM_PLATFORMS \in PlatformLists
    /\ pr_payload = NoPayload
    /\ pr_label_names = {}
    /\ terraform_project_path = <<>>
    /\ tmpdir = "none"
    /\ effects = <<>>
    /\ lock_argv = <<>>
    /\ patch_requests = <<>>

\* ----------------------------------------------------------------- helpers
Effect(op, res) == [op |-> op, res |-> res]

\* The call returned normally; main() continues at `next`.
Continue(op, res, next) ==
    /\ effects' = Append(effects, Effect(op, res))
    /\ pc' = next
    /\ exit_status' = exit_status

Raise_leak(op, res) ==
    /\ effects' = Append(effects, Effect(op, res))
    /\ pc' = "done"
    /\ exit_status' = "error"
    /\ tmpdir' = tmpdir

\* The call raised and nothing catches it: the TemporaryDirectory context
\* (if entered) removes the directory and the interpreter exits non-zero.
Raise(op, res) ==
    /\ effects' = Append(effects, Effect(op, res))
    /\ pc' = "done"
    /\ exit_status' = "error"
    /\ tmpdir' = IF tmpdir = "exists" THEN "removed" ELSE tmpdir

\* subprocess.check_call / open / chdir whose failure is not caught.
FatalCall(at, op, next) ==
    /\ pc = at
    /\ \E res \in {"ok", "error"} :
        IF res = "ok"
        THEN Continue(op, res, next) /\ tmpdir' = tmpdir
        ELSE Raise(op, res)

IsTerraformDependabotPR_either(labels) ==
    "dependencies" \in labels \/ "terraform" \in labels

IsTerraformDependabotPR(labels) ==
    "dependencies" \in labels /\ "terraform" \in labels

AlreadyFixed_never(labels) == FALSE

AlreadyFixed(labels) == FIXED_LABEL \in labels

\* ----------------------------------------------------------------- actions
\* make_get_request(API_TOKEN_LIGHT, 'repos/.../pulls/N'): urlopen raises
\* on an error status; nothing retries.
FetchPR ==
    /\ pc = "fetch_pr"
    /\ \E status \in HttpStatuses :
        IF status = "200"
        THEN /\ Continue("GET pulls", status, "gate")
             /\ pr_payload' = [fetched |-> TRUE, labels |-> server_labels,
                               title |-> pr_title]
             /\ tmpdir' = tmpdir
        ELSE /\ Raise("GET pulls", status)
             /\ pr_payload' = pr_payload
    /\ UNCHANGED <<config, server_labels, pr_label_names,
                   terraform_project_path, lock_argv, patch_requests>>

DecisionGate ==
    /\ pc = "gate"
    /\ pr_label_names' = pr_payload.labels
    /\ IF ~IsTerraformDependabotPR(pr_payload.labels)
       THEN pc' = "done" /\ exit_status' = "ok"
       ELSE IF AlreadyFixed(pr_payload.labels)
            THEN pc' = "done" /\ exit_status' = "ok"
            ELSE pc' = "check_token" /\ exit_status' = exit_status
    /\ UNCHANGED <<config, server_labels, pr_payload,
                   terraform_project_path, tmpdir, effects, lock_argv,
                   patch_requests>>

CheckToken ==
    /\ pc = "check_token"
    /\ IF API_TOKEN_FULL = ""
       THEN pc' = "done" /\ exit_status' = "error"
       ELSE pc' = "get_user" /\ exit_status' = exit_status
    /\ UNCHANGED <<config, server_labels, pr_payload, pr_label_names,
                   terraform_project_path, tmpdir, effects, lock_argv,
                   patch_requests>>

Rest == <<config, server_labels, pr_payload, pr_label_names,
          terraform_project_path, lock_argv, patch_requests>>

GetUser ==
    /\ pc = "get_user"
    /\ \E status \in HttpStatuses :
        IF status = "200"
        THEN Continue("GET user", status, "get_emails") /\ tmpdir' = tmpdir
        ELSE Raise("GET user", status)
    /\ UNCHANGED Rest

\* "no primary": the list comprehension is empty and [0] raises IndexError.
GetUserEmails ==
    /\ pc = "get_emails"
    /\ \E res \in HttpStatuses \cup {"no primary"} :
        IF res = "200"
        THEN Continue("GET user/emails", res, "config_name")
             /\ tmpdir' = tmpdir
        ELSE Raise("GET user/emails", res)
    /\ UNCHANGED Rest

GitConfigName ==
    /\ FatalCall("config_name", "git config user.name", "config_email")
    /\ UNCHANGED Rest

GitConfigEmail ==
    /\ FatalCall("config_email", "git config user.email", "config_url")
    /\ UNCHANGED Rest

GitConfigInsteadOf ==
    /\ FatalCall("config_url", "git config insteadOf", "parse_title")
    /\ UNCHANGED Rest

ParseTitle_skip ==
    /\ pc = "parse_title"
    /\ LET parts == RE_PR_TITLE_FORMAT(pr_payload.title) IN
        IF parts.matched
        THEN /\ terraform_project_path' = LStrip(parts.path)
             /\ pc' = "clone"
             /\ exit_status' = exit_status
             /\ tmpdir' = "exists"
        ELSE /\ terraform_project_path' = terraform_project_path
             /\ pc' = "done"
             /\ exit_status' = "ok"
             /\ tmpdir' = tmpdir
    /\ UNCHANGED <<config, server_labels, pr_payload, pr_label_names,
                   effects, lock_argv, patch_requests>>

\* Title parse, then entering the TemporaryDirectory context and chdir.
ParseTitle ==
    /\ pc = "parse_title"
    /\ LET parts == RE_PR_TITLE_FORMAT(pr_payload.title) IN
        IF parts.matched
        THEN /\ terraform_project_path' = LStrip(parts.path)
             /\ pc' = "clone"
             /\ exit_status' = exit_status
             /\ tmpdir' = "exists"
        ELSE /\ terraform_project_path' = terraform_project_path
             /\ pc' = "done"
             /\ exit_status' = "error"
             /\ tmpdir' = tmpdir
    /\ UNCHANGED <<config, server_labels, pr_payload, pr_label_names,
                   effects, lock_argv, patch_requests>>

GitClone ==
    /\ FatalCall("clone", "git clone", "chdir")
    /\ UNCHANGED Rest

ChdirProject ==
    /\ FatalCall("chdir", "chdir", "read_version")
    /\ UNCHANGED Rest

ReadTerraformVersion ==
    /\ FatalCall("read_version", "open .terraform-version", "curl")
    /\ UNCHANGED Rest

Curl ==
    /\ FatalCall("curl", "curl", "unzip")
    /\ UNCHANGED Rest

Unzip ==
    /\ FatalCall("unzip", "unzip", "rm")
    /\ UNCHANGED Rest

RmZip ==
    /\ FatalCall("rm", "rm", "init")
    /\ UNCHANGED Rest

TerraformInit_fatal ==
    /\ pc = "init"
    /\ \E res \in {"ok", "nonzero", "oserror"} :
        IF res = "ok"
        THEN Continue("terraform init", res, "lock") /\ tmpdir' = tmpdir
        ELSE Raise("terraform init", res)
    /\ UNCHANGED Rest

\* Only CalledProcessError (a non-zero exit) is caught; failing to execute
\* the binary raises OSError, which is not.
TerraformInit ==
    /\ pc = "init"
    /\ \E res \in {"ok", "nonzero", "oserror"} :
        IF res \in {"ok", "nonzero"}
        THEN Continue("terraform init", res, "lock") /\ tmpdir' = tmpdir
        ELSE Raise("terraform init", res)
    /\ UNCHANGED Rest

TerraformProvidersLock ==
    /\ FatalCall("lock", "terraform providers lock", "add")
    /\ lock_argv' = Append(lock_argv, LockArgv(TERRAFORM_PLATFORMS))
    /\ UNCHANGED <<config, server_labels, pr_payload, pr_label_names,
                   terraform_project_path, patch_requests>>

GitAdd ==
    /\ FatalCall("add", "git add", "commit")
    /\ UNCHANGED Rest

GitCommit_fatal ==
    /\ pc = "commit"
    /\ \E res \in {"ok", "nothing to commit", "error"} :
        IF res = "ok"
        THEN Continue("git commit", res, "push") /\ tmpdir' = tmpdir
        ELSE Raise("git commit", res)
    /\ UNCHANGED Rest

\* `except subprocess.CalledProcessError: pass` catches every non-zero exit
\* of git commit; the with-block then ends and removes the directory.
GitCommit ==
    /\ pc = "commit"
    /\ \E res \in {"ok", "nothing to commit", "error"} :
        IF res = "ok"
        THEN Continue("git commit", res, "push") /\ tmpdir' = tmpdir
        ELSE Continue("git commit", res, "patch") /\ tmpdir' = "removed"
    /\ UNCHANGED Rest

GitPush_swallow ==
    /\ pc = "push"
    /\ \E res \in {"ok", "error"} :
        Continue("git push", res, "patch") /\ tmpdir' = "removed"
    /\ UNCHANGED Rest

GitPush ==
    /\ pc = "push"
    /\ \E res \in {"ok", "error"} :
        IF res = "ok"
        THEN Continue("git push", res, "patch") /\ tmpdir' = "removed"
        ELSE Raise("git push", res)
    /\ UNCHANGED Rest

\* pr_label_names.add(FIXED_LABEL); PATCH issues/N {'labels': [...]}.
\* GitHub replaces the PR's labels by the body when it answers 200.
PatchLabels ==
    /\ pc = "patch"
    /\ pr_label_names' = pr_label_names \cup {FIXED_LABEL}
    /\ patch_requests' = Append(patch_requests, pr_label_names')
    /\ \E status \in HttpStatuses :
        IF status = "200"
        THEN /\ effects' = Append(effects, Effect("PATCH issues", status))
             /\ server_labels' = pr_label_names'
             /\ pc' = "done"
             /\ exit_status' = "ok"
             /\ tmpdir' = tmpdir
        ELSE /\ Raise("PATCH issues", status)
             /\ server_labels' = server_labels
    /\ UNCHANGED <<config, pr_payload, terraform_project_path, lock_argv>>

\* A later invocation of the program for the same PR.
Rerun ==
    /\ pc = "done"
    /\ run < MaxRuns
    /\ run' = run + 1
    /\ prev' = [status |-> exit_status,
                gate_passed |-> pr_payload.fetched
                                /\ ~(exit_status = "ok" /\ Len(effects) = 1),
                patch_sent |-> patch_requests # <<>>,
                labels |-> pr_payload.labels]
    /\ pc' = "fetch_pr"
    /\ exit_status' = "running"
    /\ pr_payload' = NoPayload
    /\ pr_label_names' = {}
    /\ terraform_project_path' = <<>>
    /\ tmpdir' = "none"
    /\ effects' = <<>>
    /\ lock_argv' = <<>>
    /\ patch_requests' = <<>>
    /\ UNCHANGED <<server_labels, pr_title, API_TOKEN_FULL,
                   TERRAFORM_PLATFORMS>>

Next ==
    \/ FetchPR
    \/ DecisionGate
    \/ CheckToken
    \/ GetUser
    \/ GetUserEmails
    \/ GitConfigName
    \/ GitConfigEmail
    \/ GitConfigInsteadOf
    \/ ParseTitle
    \/ GitClone
    \/ ChdirProject
    \/ ReadTerraformVersion
    \/ Curl
    \/ Unzip
    \/ RmZip
    \/ TerraformInit
    \/ TerraformProvidersLock
    \/ GitAdd
    \/ GitCommit
    \/ GitPush
    \/ PatchLabels
    \/ Rerun

Spec == Init /\ [][Next]_vars

\* ------------------------------------------------------------- properties
GetOk == Effect("GET pulls", "200")
GatingLabels == {"dependencies", "terraform"}
OpsBeforeClone == {"GET pulls", "GET user", "GET user/emails",
                   "git config user.name", "git config user.email",
                   "git config insteadOf"}
Did(e) == \E i \in DOMAIN effects : effects[i] = e
PatchCount ==
    Cardinality({ i \in DOMAIN effects : effects[i].op = "PATCH issues" })

\* Only the PR GET happened and the run is about to end, or has ended, with
\* exit status 0.
OnlyFetched ==
    /\ effects = <<GetOk>>
    /\ patch_requests = <<>>
    /\ lock_argv = <<>>
    /\ tmpdir = "none"
    /\ server_labels = pr_payload.labels
    /\ pc \in {"gate", "done"}
    /\ exit_status = IF pc = "done" THEN "ok" ELSE "running"

\* C1: a fetched PR lacking 'dependencies' or 'terraform' leads to nothing
\* but the PR GET (no PATCH, no git, no terraform, no scratch directory) and
\* a successful exit.
C1_NonTerraformPRIsNoOp ==
    (pr_payload.fetched /\ ~(GatingLabels \subseteq pr_payload.labels))
        => OnlyFetched

C1_Witness ==
    /\ pc = "done"
    /\ exit_status = "ok"
    /\ pr_payload.fetched
    /\ pr_payload.labels = {"dependencies", "go"}
    /\ API_TOKEN_FULL # ""

\* C2: a fetched PR that already carries FIXED_LABEL leads to nothing but
\* the PR GET and a successful exit; after a run that completed and set the
\* labels to original plus FIXED_LABEL, the next run fetches exactly that
\* label set and is therefore such a no-op.
C2_AlreadyFixedIsNoOp ==
    /\ (pr_payload.fetched /\ FIXED_LABEL \in pr_payload.labels)
           => OnlyFetched
    /\ (run > 1 /\ prev.status = "ok" /\ prev.patch_sent
            /\ pr_payload.fetched)
           => /\ pr_payload.labels = prev.labels \cup {FIXED_LABEL}
              /\ OnlyFetched

C2_Witness ==
    /\ run = 2
    /\ prev.status = "ok"
    /\ prev.patch_sent
    /\ prev.labels = {"dependencies", "terraform", "go"}
    /\ pc = "done"
    /\ exit_status = "ok"
    /\ effects = <<GetOk>>

LockSucceeded == Did(Effect("terraform providers lock", "ok"))
PublishFailed ==
    Did(Effect("git add", "error")) \/ Did(Effect("git push", "error"))
ExactlyOnePatch ==
    /\ PatchCount = 1
    /\ patch_requests = <<pr_payload.labels \cup {FIXED_LABEL}>>

\* C3 as stated: every finished run whose lock regeneration succeeded has
\* sent exactly one PATCH carrying the fetched labels plus FIXED_LABEL.
C3_Original ==
    (pc = "done" /\ LockSucceeded) => ExactlyOnePatch

\* C3 amended: every finished run whose lock regeneration succeeded, and in
\* which neither git add nor an attempted git push failed, has sent exactly
\* one PATCH carrying the fetched labels plus FIXED_LABEL, whether or not a
\* commit was made; no run sends more than one.
C3_PatchAfterPublish ==
    /\ PatchCount <= 1
    /\ (pc = "done" /\ LockSucceeded /\ ~PublishFailed) => ExactlyOnePatch

C3_Witness ==
    /\ pc = "done"
    /\ LockSucceeded
    /\ Did(Effect("git commit", "nothing to commit"))
    /\ ~Did(Effect("git push", "ok"))
    /\ ExactlyOnePatch
    /\ "go" \in pr_payload.labels
    /\ server_labels = {"dependencies", "terraform", "go", FIXED_LABEL}

\* C4: a git commit failure other than 'nothing to commit' aborts the run:
\* it is the last call of the run, the exit status is non-zero and no PATCH
\* is sent.
C4_OtherCommitFailureIsFatal ==
    \A i \in DOMAIN effects :
        effects[i] = Effect("git commit", "error")
            => /\ i = Len(effects)
               /\ pc = "done"
               /\ exit_status = "error"
               /\ patch_requests = <<>>

\* C5: a run whose first PR GET answered 401 has made a second PR GET by
\* the time it ends.
C5_RetryAfter401 ==
    (pc = "done" /\ effects # <<>>
        /\ effects[1] = Effect("GET pulls", "401"))
        => /\ Len(effects) >= 2
           /\ effects[2].op = "GET pulls"

\* C6: with both gating labels, no FIXED_LABEL and a title the pattern does
\* not match, the run never clones, calls terraform, commits, pushes or
\* PATCHes, and never ends with exit status 0.
C6_BadTitleIsFatal ==
    (/\ pr_payload.fetched
     /\ GatingLabels \subseteq pr_payload.labels
     /\ FIXED_LABEL \notin pr_payload.labels
     /\ ~RE_PR_TITLE_FORMAT(pr_payload.title).matched)
        => /\ \A i \in DOMAIN effects : effects[i].op \in OpsBeforeClone
           /\ tmpdir = "none"
           /\ lock_argv = <<>>
           /\ patch_requests = <<>>
           /\ server_labels = pr_payload.labels
           /\ ~(pc = "done" /\ exit_status = "ok")

C6_Witness ==
    /\ pc = "done"
    /\ exit_status = "error"
    /\ pr_payload.title = BumpFoo
    /\ Len(effects) = 6
    /\ effects[6] = Effect("git config insteadOf", "ok")

TitleParsed ==
    pc \in {"clone", "chdir", "read_version", "curl", "unzip", "rm", "init",
            "lock", "add", "commit", "push", "patch"}

OneLeadingSlashRemoved(p, r) ==
    r = IF p # <<>> /\ p[1] = "/" THEN SubSeq(p, 2, Len(p)) ELSE p

AllLeadingSlashesRemoved(p, r) ==
    \E k \in 0..Len(p) :
        /\ \A i \in 1..k : p[i] = "/"
        /\ k < Len(p) => p[k + 1] # "/"
        /\ r = SubSeq(p, k + 1, Len(p))

\* C7 as stated: for a title 'Bump X from Y to Z in <path>' the parsed
\* project path is <path> with exactly one leading slash removed if present.
C7_Original ==
    TitleParsed =>
        \A x \in Names, p \in Paths :
            (p # <<>> /\ pr_payload.title = BumpTitle(x, p))
                => OneLeadingSlashRemoved(p, terraform_project_path)

\* C7 amended: for a title 'Bump X from Y to Z in <path>' the parsed project
\* path is <path> with all of its leading slashes removed, and nothing else
\* changed (trailing slashes stay).
C7_PathStripsLeadingSlashes ==
    TitleParsed =>
        \A x \in Names, p \in Paths :
            (p # <<>> /\ pr_payload.title = BumpTitle(x, p))
                => AllLeadingSlashesRemoved(p, terraform_project_path)

C7_Witness ==
    /\ pc = "clone"
    /\ pr_payload.title = BumpTitle(<<"x">> \o LIT_IN \o <<"y">>,
                                    <<"/", "a", "/">>)
    /\ terraform_project_path = <<"a", "/">>

\* C8: a non-zero exit of terraform init is followed by the providers lock
\* call; every providers lock call carries exactly one -platform flag per
\* configured platform, in list order; a failed providers lock is the last
\* call of the run, which exits non-zero without a PATCH.
C8_InitIgnoredLockFatal ==
    /\ \A i \in DOMAIN effects :
        effects[i] = Effect("terraform init", "nonzero")
            => IF i = Len(effects)
               THEN pc = "lock" /\ exit_status = "running"
               ELSE effects[i + 1].op = "terraform providers lock"
    /\ Len(lock_argv) =
           Cardinality({ i \in DOMAIN effects :
                           effects[i].op = "terraform providers lock" })
    /\ \A k \in DOMAIN lock_argv :
        /\ Len(lock_argv[k]) = 3 + Len(TERRAFORM_PLATFORMS)
        /\ SubSeq(lock_argv[k], 1, 3)
               = << <<"/terraform">>, <<"providers">>, <<"lock">> >>
        /\ \A j \in DOMAIN TERRAFORM_PLATFORMS :
               lock_argv[k][3 + j] = <<"-platform=", TERRAFORM_PLATFORMS[j]>>
    /\ \A i \in DOMAIN effects :
        effects[i] = Effect("terraform providers lock", "error")
            => /\ i = Len(effects)
               /\ pc = "done"
               /\ exit_status = "error"
               /\ patch_requests = <<>>

C8_Witness ==
    /\ pc = "done"
    /\ exit_status = "ok"
    /\ Did(Effect("terraform init", "nonzero"))
    /\ LockSucceeded
    /\ TERRAFORM_PLATFORMS = <<"linux_amd64", "darwin_amd64">>

\* C9: the scratch directory exists only in runs that passed the decision
\* gate and the title parse, and no finished run leaves it behind.
C9_ScratchDirScoped ==
    /\ tmpdir # "none"
           => /\ pr_payload.fetched
              /\ GatingLabels \subseteq pr_payload.labels
              /\ FIXED_LABEL \notin pr_payload.labels
              /\ RE_PR_TITLE_FORMAT(pr_payload.title).matched
              /\ Len(effects) >= 6
    /\ pc = "done" => tmpdir # "exists"

C9_Witness ==
    /\ pc = "done"
    /\ exit_status = "error"
    /\ tmpdir = "removed"
    /\ Did(Effect("git push", "error"))

\* C10: a PATCH is the last call of its run and is sent at most once; every
\* fatal step before it succeeded; a run that failed without sending it
\* leaves the PR's labels as fetched, and the next run on that PR passes
\* the decision gate again.
C10_PatchIsLast ==
    /\ \A i \in DOMAIN effects :
        effects[i].op = "PATCH issues"
            => /\ i = Len(effects)
               /\ pc = "done"
               /\ \A j \in 1..(i - 1) :
                    \/ effects[j].res \in {"ok", "200"}
                    \/ effects[j] = Effect("terraform init", "nonzero")
                    \/ effects[j].op = "git commit"
    /\ Len(patch_requests) <= 1
    /\ patch_requests # <<>>
           => /\ API_TOKEN_FULL # ""
              /\ RE_PR_TITLE_FORMAT(pr_payload.title).matched
    /\ (exit_status = "error" /\ patch_requests = <<>> /\ pr_payload.fetched)
           => server_labels = pr_payload.labels
    /\ (run > 1 /\ prev.gate_passed /\ prev.status = "error"
            /\ ~prev.patch_sent /\ pr_payload.fetched /\ pc # "gate")
           => ~(pc = "done" /\ exit_status = "ok" /\ Len(effects) = 1)

C10_Witness ==
    /\ run = 2
    /\ prev.gate_passed
    /\ prev.status = "error"
    /\ ~prev.patch_sent
    /\ pc = "done"
    /\ exit_status = "ok"
    /\ Did(Effect("git push", "ok"))
    /\ effects[Len(effects)] = Effect("PATCH issues", "200")

====
